---- MODULE Spec2Model ----
(***************************************************************************)
(* Model of the zpl-go printer tools:                                      *)
(*   - the USB/Network menu tool        (src/src/main.go, lines 1-282)     *)
(*   - the serial command-line tool     (src/unnamed/part_000)             *)
(*   - the fixed-port label program     (src/src/main.go, lines 284-326)   *)
(* One of the three runs per behaviour; prog says which.                   *)
(* The USB library (gousb), the socket and the serial port are modelled    *)
(* as a set of held OS resources, a log of the library calls made by the   *)
(* current operation, and a byte sink per handle.                          *)
(***************************************************************************)
EXTENDS Integers, Sequences, FiniteSets, TLC

VARIABLES
    prog,       \* which program runs: "usbnet", "serial" or "fixed"
    pc,         \* control position of the running program
    stack,      \* usbnet: call stack of main(), one frame per activation
    handles,    \* every handle object ever constructed, by handle id
    held,       \* OS resources currently held: <<kind, id>>
    sink,       \* bytes that arrived at each handle's transport
    okSent,     \* history: payloads of the sends that returned nil, per handle
    last,       \* the last operation performed: what was called and returned
    attempts,   \* number of open attempts so far (source of resource ids)
    nsends,     \* number of sends issued so far
    closes,     \* history: result of every Close call, per handle
    rid,        \* history: the open attempt that constructed each handle
    opens,      \* history: outcome of every open attempt, and the endpoints of
                \* the interface the new handle holds
    flags       \* fixed at start: the serial tool's flags, the platform

vars == <<prog, pc, stack, handles, held, sink, okSent, last, attempts, nsends, closes, rid, opens, flags>>

(***************************************************************************)
(* Bounds                                                                  *)
(***************************************************************************)
MaxLen == 1         \* longest payload the user supplies
MaxOpens == 2       \* open attempts per run
MaxSends == 2       \* sends per run
MaxDepth == 2       \* activations of main() on the stack

LF == 10            \* the line-feed byte "\n"
XB == 65            \* any byte other than line-feed
Bytes == {LF, XB}

SeqsUpTo(S, n) == UNION {[1..k -> S] : k \in 0..n}
\* what the user can supply: every short payload, and a terminated command
Payloads == SeqsUpTo(Bytes, MaxLen) \cup {<<XB, LF>>}

\* testZPL: a multi-line label that does not end with a newline
TestZPL == <<XB, LF, XB>>

NoErr == ""

(***************************************************************************)
(* strings.HasSuffix(zpl, "\n") and the framing done by the three sends    *)
(***************************************************************************)
HasSuffixLF(zpl) == Len(zpl) >= 1 /\ zpl[Len(zpl)] = LF

\* variant: the newline is appended without looking at the suffix
FrameZPL_Always(zpl) == zpl \o <<LF>>

FrameZPL(zpl) == IF ~HasSuffixLF(zpl) THEN zpl \o <<LF>> ELSE zpl

Take(s, n) == SubSeq(s, 1, n)

(***************************************************************************)
(* The outcome of one Write call on a transport: the number of bytes the   *)
(* transport accepts and whether it reports an error.                      *)
(***************************************************************************)
MaxShort == 1       \* most bytes a transport leaves unaccepted in one Write
WriteOutcomes == [short : 0..MaxShort, err : BOOLEAN]

\* the bytes of data the transport accepted under outcome o
Accepted(data, o) == Take(data, IF Len(data) >= o.short THEN Len(data) - o.short ELSE 0)

(***************************************************************************)
(* The world seen by the USB library: the resources held and the log of    *)
(* library calls made by the operation in progress.                        *)
(***************************************************************************)
World(h, o) == [held |-> h, ops |-> o]

Call(w, name, id) == World(w.held, Append(w.ops, <<name, id>>))

\* gousb.NewContext()
NewContext(w, n) == World(w.held \cup {<<"ctx", n>>}, Append(w.ops, <<"NewContext", n>>))

\* ctx.Close()
CtxClose(w, n) == World(w.held \ {<<"ctx", n>>}, Append(w.ops, <<"ctx.Close", n>>))

\* ctx.OpenDeviceWithVIDPID: returns a device with a nil error, or no device
\* (with or without an error); found = a device handle was opened
OpenDeviceWithVIDPID(w, n, found) ==
    World(IF found THEN w.held \cup {<<"dev", n>>} ELSE w.held,
          Append(w.ops, <<"OpenDeviceWithVIDPID", n>>))

\* dev.SetAutoDetach(true)
SetAutoDetach(w, n) == Call(w, "SetAutoDetach", n)

\* dev.Close(): gousb refuses to close a device that still has a claimed
\* configuration and returns an error, leaving the device open.
DevCloseErr(w, n) ==
    IF <<"cfg", n>> \in w.held THEN "device has an open config" ELSE NoErr

\* variant: the device is not closed
DevClose_Skip(w, n) == w

DevClose(w, n) ==
    World(IF <<"cfg", n>> \in w.held THEN w.held ELSE w.held \ {<<"dev", n>>},
          Append(w.ops, <<"dev.Close", n>>))

\* dev.DefaultInterface(): claims the active configuration and its
\* interface 0; on failure nothing stays claimed.
DefaultInterface(w, n, ok) ==
    World(IF ok THEN w.held \cup {<<"cfg", n>>, <<"intf", n>>} ELSE w.held,
          Append(w.ops, <<"DefaultInterface", n>>))

\* intf.Close(): releases the interface claim only
IntfClose(w, n) == World(w.held \ {<<"intf", n>>}, Append(w.ops, <<"intf.Close", n>>))

\* variant: the rollback releases the interface but not the configuration
Done_IntfOnly(w, n) == World(w.held \ {<<"intf", n>>}, Append(w.ops, <<"intf.Close", n>>))

\* done(), as returned by DefaultInterface: intf.Close() then cfg.Close()
Done(w, n) == World(w.held \ {<<"intf", n>>, <<"cfg", n>>}, Append(w.ops, <<"done", n>>))

\* intf.OutEndpoint(ep.Number)
OutEndpoint(w, n) == Call(w, "OutEndpoint", n)

(***************************************************************************)
(* Handles.  One record shape for the three kinds; 0 is the nil reference. *)
(***************************************************************************)
USBPrinter(ctx, dev, intf, outEP, claimed) ==
    [kind |-> "usb", ctx |-> ctx, dev |-> dev, intf |-> intf, outEP |-> outEP,
     claimed |-> claimed, conn |-> 0, addr |-> 0]

NetworkPrinter(conn, addr) ==
    [kind |-> "net", ctx |-> 0, dev |-> 0, intf |-> 0, outEP |-> 0,
     claimed |-> FALSE, conn |-> conn, addr |-> addr]

SerialPort(fd) ==
    [kind |-> "serial", ctx |-> 0, dev |-> 0, intf |-> 0, outEP |-> 0,
     claimed |-> FALSE, conn |-> fd, addr |-> 0]

NilHandle == [kind |-> "nil", ctx |-> 0, dev |-> 0, intf |-> 0, outEP |-> 0,
              claimed |-> FALSE, conn |-> 0, addr |-> 0]

(***************************************************************************)
(* The environment of one NewUSBPrinter call.                              *)
(*   lookup      "err" | "none" | "found"                                  *)
(*   linux       runtime.GOOS == "linux"                                   *)
(*   detachOK    dev.SetAutoDetach succeeds                                *)
(*   claimOK     dev.DefaultInterface succeeds                             *)
(*   eps         intf.Setting.Endpoints in this call's iteration order     *)
(*   epOK        intf.OutEndpoint succeeds                                 *)
(***************************************************************************)
MaxEndpoints == 2
EndpointDescs == [Number : 1..MaxEndpoints, Direction : {"in", "out"}]

\* endpoint lists without a repeated endpoint number
EndpointLists ==
    {s \in SeqsUpTo(EndpointDescs, MaxEndpoints) :
        \A i, j \in 1..Len(s) : i # j => s[i].Number # s[j].Number}

AllUSBEnvs ==
    [lookup : {"err", "none", "found"}, linux : BOOLEAN, detachOK : BOOLEAN,
     claimOK : BOOLEAN, eps : EndpointLists, epOK : BOOLEAN]

\* an outcome the call never asks for is left at its default, so that two
\* environments differ only where NewUSBPrinter can tell them apart
USBEnvs ==
    {e \in AllUSBEnvs :
        LET detachAsked == e.lookup = "found" /\ e.linux
            claimAsked == e.lookup = "found" /\ (e.linux => e.detachOK)
            epsAsked == claimAsked /\ e.claimOK
            epAsked == epsAsked /\ \E i \in 1..Len(e.eps) : e.eps[i].Direction = "out"
        IN  /\ ~detachAsked => e.detachOK
            /\ ~claimAsked => e.claimOK
            /\ ~epsAsked => e.eps = <<>>
            /\ ~epAsked => e.epOK}

\* the target is available: the device is attached, can be claimed and has
\* an OUT endpoint that opens
Available(env) ==
    /\ env.lookup = "found"
    /\ env.linux => env.detachOK
    /\ env.claimOK
    /\ \E i \in 1..Len(env.eps) : env.eps[i].Direction = "out"
    /\ env.epOK

\* index of the first endpoint at or after i whose direction is OUT, 0 if none
RECURSIVE FirstOut(_, _)
FirstOut(eps, i) ==
    IF i > Len(eps) THEN 0
    ELSE IF eps[i].Direction = "out" THEN i
    ELSE FirstOut(eps, i + 1)

\* variant: the deferred func is missing
DeferredCtxClose_Never(w, ctx) == w

\* the deferred func of NewUSBPrinter, run at every return
DeferredCtxClose(w, ctx) == IF ctx # 0 THEN CtxClose(w, ctx) ELSE w

Return(w, ctx, p, err) == [w |-> DeferredCtxClose(w, ctx), p |-> p, err |-> err]

NewUSBPrinter(w0, n, env) ==
    LET ctx == n
        w1 == NewContext(w0, ctx)
        w2 == OpenDeviceWithVIDPID(w1, n, env.lookup = "found")
    IN  IF env.lookup = "err" THEN
            Return(w2, ctx, NilHandle, "failed to open device")
        ELSE IF env.lookup = "none" THEN
            Return(w2, ctx, NilHandle, "Zebra printer not found")
        ELSE
        LET dev == n
            w3 == IF env.linux THEN SetAutoDetach(w2, dev) ELSE w2
        IN  IF env.linux /\ ~env.detachOK THEN
                Return(DevClose(w3, dev), ctx, NilHandle, "failed to set auto detach")
            ELSE
            LET w4 == DefaultInterface(w3, dev, env.claimOK)
                intf == n
            IN  IF ~env.claimOK THEN
                    Return(DevClose(w4, dev), ctx, NilHandle, "failed to claim interface")
                ELSE
                LET i == FirstOut(env.eps, 1)
                    w5 == IF i # 0 THEN OutEndpoint(w4, intf) ELSE w4
                IN  IF i # 0 /\ ~env.epOK THEN
                        Return(DevClose(Done(w5, intf), dev), ctx, NilHandle,
                               "failed to open out endpoint")
                    ELSE IF i = 0 THEN
                        Return(DevClose(Done(w5, intf), dev), ctx, NilHandle,
                               "no OUT endpoint found")
                    ELSE
                        \* ctx = nil, then the struct literal reads ctx
                        LET ctxNil == 0
                        IN  Return(w5, ctxNil,
                                   USBPrinter(ctxNil, dev, intf, env.eps[i].Number, TRUE),
                                   NoErr)

(***************************************************************************)
(* USBPrinter.SendZPL: one bulk transfer of the framed payload; the byte   *)
(* count returned by Write is discarded.                                   *)
(***************************************************************************)
\* variant: the claimed check is missing
USBSendZPL_NoGuard(p, zpl, o) ==
    LET data == FrameZPL(zpl)
    IN  [data |-> data, acc |-> Accepted(data, o), writes |-> 1,
         err |-> IF o.err THEN "write error" ELSE NoErr]

USBSendZPL(p, zpl, o) ==
    IF ~p.claimed THEN
        [data |-> <<>>, acc |-> <<>>, writes |-> 0, err |-> "printer interface not claimed"]
    ELSE
        LET data == FrameZPL(zpl)
        IN  [data |-> data, acc |-> Accepted(data, o), writes |-> 1,
             err |-> IF o.err THEN "write error" ELSE NoErr]

(***************************************************************************)
(* USBPrinter.Close                                                        *)
(***************************************************************************)
USBClose(w0, p) ==
    LET w1 == IF p.claimed THEN IntfClose(w0, p.intf) ELSE w0
        err == IF p.dev # 0 THEN DevCloseErr(w1, p.dev) ELSE NoErr
        w2 == IF p.dev # 0 THEN DevClose(w1, p.dev) ELSE w1
        w3 == IF p.ctx # 0 THEN CtxClose(w2, p.ctx) ELSE w2
    IN  [w |-> w3, p |-> USBPrinter(0, 0, p.intf, p.outEP, FALSE), err |-> err]

(***************************************************************************)
(* NewNetworkPrinter, NetworkPrinter.SendZPL, NetworkPrinter.Close         *)
(***************************************************************************)
\* variant: the error of net.Dial is dropped and a handle is returned
NewNetworkPrinter_IgnoreErr(w0, n, addr, dialOK) ==
    [w |-> World(IF dialOK THEN w0.held \cup {<<"sock", n>>} ELSE w0.held,
                 Append(w0.ops, <<"net.Dial", n>>)),
     p |-> NetworkPrinter(IF dialOK THEN n ELSE 0, addr), err |-> NoErr]

NewNetworkPrinter(w0, n, addr, dialOK) ==
    LET w1 == World(IF dialOK THEN w0.held \cup {<<"sock", n>>} ELSE w0.held,
                    Append(w0.ops, <<"net.Dial", n>>))
    IN  IF ~dialOK THEN [w |-> w1, p |-> NilHandle, err |-> "failed to connect to printer"]
        ELSE [w |-> w1, p |-> NetworkPrinter(n, addr), err |-> NoErr]

\* io.Copy(p.conn, bytes.NewBufferString(zpl)): Buffer.WriteTo issues one
\* Write of the whole buffer; an error is returned as is, and a short
\* write without an error becomes io.ErrShortWrite.
NetSendZPL(p, zpl, o) ==
    IF p.conn = 0 THEN
        [data |-> <<>>, acc |-> <<>>, writes |-> 0, err |-> "not connected to printer"]
    ELSE
        LET data == FrameZPL(zpl)
        IN  [data |-> data, acc |-> Accepted(data, o), writes |-> 1,
             err |-> IF o.err THEN "write error"
                     ELSE IF Len(Accepted(data, o)) # Len(data) THEN "short write"
                     ELSE NoErr]

NetClose(w0, p) ==
    IF p.conn # 0 THEN
        [w |-> World(w0.held \ {<<"sock", p.conn>>}, Append(w0.ops, <<"conn.Close", p.conn>>)),
         p |-> NetworkPrinter(0, p.addr), err |-> NoErr]
    ELSE [w |-> w0, p |-> p, err |-> NoErr]

(***************************************************************************)
(* Serial tool: sendZpl and sendZplFromFile                                *)
(***************************************************************************)
sendZpl(zpl, o) ==
    LET data == FrameZPL(zpl)
    IN  [data |-> data, acc |-> Accepted(data, o), writes |-> 1,
         err |-> IF o.err THEN "write error" ELSE NoErr]

sendZplFromFile(readOK, content, o) ==
    IF ~readOK THEN
        [data |-> <<>>, acc |-> <<>>, writes |-> 0, err |-> "failed to read file"]
    ELSE
        LET data == content
        IN  [data |-> data, acc |-> Accepted(data, o), writes |-> 1,
             err |-> IF o.err THEN "failed to send data" ELSE NoErr]

\* port.Close() of the serial port
PortClose(w0, p) ==
    [w |-> World(w0.held \ {<<"port", p.conn>>}, Append(w0.ops, <<"port.Close", p.conn>>)),
     p |-> p, err |-> NoErr]

(***************************************************************************)
(* Dispatch through the PrinterConnection interface                        *)
(***************************************************************************)
SendZPL(p, zpl, o) ==
    IF p.kind = "usb" THEN USBSendZPL(p, zpl, o) ELSE NetSendZPL(p, zpl, o)

Close(w, p) ==
    IF p.kind = "usb" THEN USBClose(w, p)
    ELSE IF p.kind = "net" THEN NetClose(w, p)
    ELSE PortClose(w, p)

(***************************************************************************)
(* State                                                                   *)
(***************************************************************************)
NilPrinter == 0         \* printer == nil
TypedNil == -1          \* printer holds the nil pointer a failed open returned

Frame(printer, defers) == [printer |-> printer, defers |-> defers]

Addrs == {"192.168.1.100:9100"}

\* what is fixed when the process starts: the serial tool's flags, and for
\* the USB/Network tool whether runtime.GOOS is "linux"
SerialFlags ==
    [port : {"", "COM3"}, file : {"", "label.zpl"}, zpl : Payloads, linux : {FALSE}]
MenuFlags == [port : {""}, file : {""}, zpl : {<<>>}, linux : BOOLEAN]
\* the fixed-port program takes no flags: portName := "USB001"
FixedFlags == [port : {"USB001"}, file : {""}, zpl : {<<>>}, linux : {FALSE}]

\* the label of the fixed-port program: it ends with a newline
FixedZPL == <<XB, LF, XB, LF>>

Op(op, h, p, r, ops) ==
    [op |-> op, h |-> h, p |-> p, data |-> r.data, acc |-> r.acc,
     writes |-> r.writes, err |-> r.err, ops |-> ops]

NoIO(err) == [data |-> <<>>, acc |-> <<>>, writes |-> 0, err |-> err]

Init ==
    /\ prog \in {"usbnet", "serial", "fixed"}
    /\ pc = "start"
    /\ stack = IF prog = "usbnet" THEN <<Frame(NilPrinter, <<>>)>> ELSE <<>>
    /\ handles = <<>>
    /\ held = {}
    /\ sink = <<>>
    /\ okSent = <<>>
    /\ closes = <<>>
    /\ rid = <<>>
    /\ opens = <<>>
    /\ last = Op("start", 0, <<>>, NoIO(NoErr), <<>>)
    /\ attempts = 0
    /\ nsends = 0
    /\ flags \in IF prog = "serial" THEN SerialFlags
                ELSE IF prog = "fixed" THEN FixedFlags
                ELSE MenuFlags

Top == stack[Len(stack)]

SetTop(f) == [stack EXCEPT ![Len(stack)] = f]

\* a new handle object enters the heap
NewHandle(p) ==
    /\ handles' = Append(handles, p)
    /\ rid' = Append(rid, attempts + 1)
    /\ sink' = Append(sink, <<>>)
    /\ okSent' = Append(okSent, <<>>)
    /\ closes' = Append(closes, <<>>)

\* the effect of one send on handle h
Sent(op, h, zpl, r) ==
    /\ sink' = [sink EXCEPT ![h] = @ \o r.acc]
    /\ okSent' = [okSent EXCEPT ![h] = IF r.err = NoErr THEN Append(@, zpl) ELSE @]
    /\ last' = Op(op, h, zpl, r, <<>>)
    /\ nsends' = nsends + 1

\* the effect of one Close on handle h
Closed(op, h, r) ==
    /\ handles' = [handles EXCEPT ![h] = r.p]
    /\ held' = r.w.held
    /\ closes' = [closes EXCEPT ![h] = Append(@, [err |-> r.err, ops |-> r.w.ops])]
    /\ last' = Op(op, h, <<>>, NoIO(r.err), r.w.ops)

(***************************************************************************)
(* USB/Network tool: main()                                                *)
(***************************************************************************)
\* main is entered: banner printed, var printer, err declared
MainEnter ==
    /\ prog = "usbnet" /\ pc = "start"
    /\ pc' = "select"
    /\ UNCHANGED <<prog, stack, handles, held, sink, okSent, last, attempts,
                   nsends, closes, rid,
                   opens, flags>>

\* variant: the error branch falls out of the switch instead of continuing
Opened_BreakOnError(op, r, avail, eps) ==
    /\ attempts' = attempts + 1
    /\ opens' = Append(opens, [op |-> op, err |-> r.err, avail |-> avail,
                               eps |-> IF r.err = NoErr THEN eps ELSE {}])
    /\ held' = r.w.held
    /\ IF r.err # NoErr THEN
            /\ stack' = SetTop(Frame(TypedNil, Top.defers))
            /\ pc' = "options"
            /\ last' = Op(op, 0, <<>>, NoIO(r.err), r.w.ops)
            /\ UNCHANGED <<handles, sink, okSent, closes, rid>>
       ELSE
            LET h == Len(handles) + 1
            IN  /\ NewHandle(r.p)
                /\ stack' = SetTop(Frame(h, Append(Top.defers, h)))
                /\ pc' = "options"
                /\ last' = Op(op, h, <<>>, NoIO(r.err), r.w.ops)
    /\ UNCHANGED <<prog, nsends, flags>>

\* the outcome of an open in the connection menu
Opened(op, r, avail, eps) ==
    /\ attempts' = attempts + 1
    /\ opens' = Append(opens, [op |-> op, err |-> r.err, avail |-> avail,
                               eps |-> IF r.err = NoErr THEN eps ELSE {}])
    /\ held' = r.w.held
    /\ IF r.err # NoErr THEN
            \* printer holds the nil pointer; continue
            /\ stack' = SetTop(Frame(TypedNil, Top.defers))
            /\ pc' = "select"
            /\ last' = Op(op, 0, <<>>, NoIO(r.err), r.w.ops)
            /\ UNCHANGED <<handles, sink, okSent, closes, rid>>
       ELSE
            \* defer printer.Close(); break; printer != nil: break
            LET h == Len(handles) + 1
            IN  /\ NewHandle(r.p)
                /\ stack' = SetTop(Frame(h, Append(Top.defers, h)))
                /\ pc' = "options"
                /\ last' = Op(op, h, <<>>, NoIO(r.err), r.w.ops)
    /\ UNCHANGED <<prog, nsends, flags>>

\* case "1" of the connection menu
ChooseUSB ==
    /\ prog = "usbnet" /\ pc = "select" /\ attempts < MaxOpens
    /\ \E env \in USBEnvs :
        /\ env.linux = flags.linux
        /\ Opened("NewUSBPrinter", NewUSBPrinter(World(held, <<>>), attempts + 1, env),
                   Available(env), {env.eps[i] : i \in 1..Len(env.eps)})

\* case "2" of the connection menu
ChooseNetwork ==
    /\ prog = "usbnet" /\ pc = "select" /\ attempts < MaxOpens
    /\ \E addr \in Addrs, dialOK \in BOOLEAN :
            Opened("NewNetworkPrinter",
                   NewNetworkPrinter(World(held, <<>>), attempts + 1, addr, dialOK), dialOK, {})

\* case "3" of the connection menu: return
ChooseExit ==
    /\ prog = "usbnet" /\ pc = "select"
    /\ pc' = "return"
    /\ last' = Op("exit", 0, <<>>, NoIO(NoErr), <<>>)
    /\ UNCHANGED <<prog, stack, handles, held, sink, okSent, attempts, nsends,
                   closes, rid,
                   opens, flags>>

\* default of the connection menu: continue
ChooseInvalid ==
    /\ prog = "usbnet" /\ pc = "select"
    /\ last' = Op("invalid", 0, <<>>, NoIO(NoErr), <<>>)
    /\ UNCHANGED <<prog, pc, stack, handles, held, sink, okSent, attempts, nsends,
                   closes, rid,
                   opens, flags>>

\* case "1" of the options menu: send the test label
SendTest ==
    /\ prog = "usbnet" /\ pc = "options" /\ nsends < MaxSends
    /\ \E o \in WriteOutcomes :
            Sent("SendZPL", Top.printer, TestZPL, SendZPL(handles[Top.printer], TestZPL, o))
    /\ UNCHANGED <<prog, pc, stack, handles, held, attempts, closes, rid, opens, flags>>

\* case "2" of the options menu: send the ZPL the user typed
SendCustom ==
    /\ prog = "usbnet" /\ pc = "options" /\ nsends < MaxSends
    /\ \E zpl \in Payloads, o \in WriteOutcomes :
            Sent("SendZPL", Top.printer, zpl, SendZPL(handles[Top.printer], zpl, o))
    /\ UNCHANGED <<prog, pc, stack, handles, held, attempts, closes, rid, opens, flags>>

\* variant: main() is re-entered without closing the current printer
ChangeConnection_NoClose ==
    /\ prog = "usbnet" /\ pc = "options" /\ Len(stack) < MaxDepth
    /\ stack' = Append(stack, Frame(NilPrinter, <<>>))
    /\ pc' = "select"
    /\ last' = Op("main", 0, <<>>, NoIO(NoErr), <<>>)
    /\ UNCHANGED <<prog, handles, held, closes, sink, okSent, attempts, nsends, rid,
                   opens, flags>>

\* case "3" of the options menu: printer.Close(); main()
ChangeConnection ==
    /\ prog = "usbnet" /\ pc = "options" /\ Len(stack) < MaxDepth
    /\ Closed("Close", Top.printer, Close(World(held, <<>>), handles[Top.printer]))
    /\ stack' = Append(stack, Frame(NilPrinter, <<>>))
    /\ pc' = "select"
    /\ UNCHANGED <<prog, sink, okSent, attempts, nsends, rid, opens, flags>>

\* case "4" of the options menu: return
OptionsExit ==
    /\ prog = "usbnet" /\ pc = "options"
    /\ pc' = "return"
    /\ last' = Op("exit", 0, <<>>, NoIO(NoErr), <<>>)
    /\ UNCHANGED <<prog, stack, handles, held, sink, okSent, attempts, nsends,
                   closes, rid,
                   opens, flags>>

\* default of the options menu
OptionsInvalid ==
    /\ prog = "usbnet" /\ pc = "options"
    /\ last' = Op("invalid", 0, <<>>, NoIO(NoErr), <<>>)
    /\ UNCHANGED <<prog, pc, stack, handles, held, sink, okSent, attempts, nsends,
                   closes, rid,
                   opens, flags>>

\* the top activation of main returns: its deferred printer.Close() runs
\* (a frame registers at most one), then control is back in the caller,
\* which is at "main(); return"
MainReturn ==
    /\ prog = "usbnet" /\ pc = "return"
    /\ IF Top.defers = <<>> THEN
            /\ last' = Op("return", 0, <<>>, NoIO(NoErr), <<>>)
            /\ UNCHANGED <<handles, held, closes>>
       ELSE
            LET h == Top.defers[Len(Top.defers)]
            IN  Closed("deferred Close", h, Close(World(held, <<>>), handles[h]))
    /\ stack' = Take(stack, Len(stack) - 1)
    /\ pc' = IF Len(stack) = 1 THEN "exited" ELSE "return"
    /\ UNCHANGED <<prog, sink, okSent, attempts, nsends, rid, opens, flags>>

(***************************************************************************)
(* Serial tool: main()                                                     *)
(***************************************************************************)
\* variant: the port name is not validated
SerialValidate_NoCheck ==
    /\ prog = "serial" /\ pc = "start"
    /\ pc' = "open"
    /\ UNCHANGED <<prog, stack, handles, held, sink, okSent, last, attempts, nsends,
                   closes, rid, opens, flags>>

\* flag.Parse and the port name validation
SerialValidate ==
    /\ prog = "serial" /\ pc = "start"
    /\ IF flags.port = "" THEN
            /\ pc' = "fatal"
            /\ last' = Op("log.Fatal", 0, <<>>, NoIO("Port name is required"), <<>>)
       ELSE /\ pc' = "open"
            /\ UNCHANGED last
    /\ UNCHANGED <<prog, stack, handles, held, sink, okSent, attempts, nsends,
                   closes, rid,
                   opens, flags>>

\* serial.OpenPort(config); defer port.Close()
SerialOpen ==
    /\ prog = "serial" /\ pc = "open"
    /\ \E ok \in BOOLEAN :
        LET n == attempts + 1
            ops == <<<<"serial.OpenPort", n>>>>
        IN  /\ attempts' = n
            /\ opens' = Append(opens, [op |-> "serial.OpenPort",
                                       err |-> IF ok THEN NoErr ELSE "open failed",
                                       avail |-> ok, eps |-> {}])
            /\ IF ~ok THEN
                    /\ pc' = "fatal"
                    /\ last' = Op("log.Fatalf", 0, <<>>, NoIO("Failed to open serial port"), ops)
                    /\ UNCHANGED <<handles, held, sink, okSent, closes, rid, stack>>
               ELSE
                    /\ NewHandle(SerialPort(n))
                    /\ held' = held \cup {<<"port", n>>}
                    /\ stack' = <<Frame(1, <<1>>)>>
                    /\ pc' = IF flags.file # "" THEN "file"
                             ELSE IF flags.zpl # <<>> THEN "zpl"
                             ELSE "interactive"
                    /\ last' = Op("serial.OpenPort", 1, <<>>, NoIO(NoErr), ops)
    /\ UNCHANGED <<prog, nsends, flags>>

\* -file: sendZplFromFile(port, *zplFile)
SerialSendFile ==
    /\ prog = "serial" /\ pc = "file"
    /\ \E readOK \in BOOLEAN, content \in Payloads, o \in WriteOutcomes :
        LET r == sendZplFromFile(readOK, content, o)
        IN  /\ Sent("sendZplFromFile", 1, content, r)
            /\ pc' = IF r.err # NoErr THEN "fatal" ELSE "closing"
    /\ UNCHANGED <<prog, stack, handles, held, attempts, closes, rid, opens, flags>>

\* -zpl: sendZpl(port, *zplText)
SerialSendText ==
    /\ prog = "serial" /\ pc = "zpl"
    /\ \E o \in WriteOutcomes :
        LET r == sendZpl(flags.zpl, o)
        IN  /\ Sent("sendZpl", 1, flags.zpl, r)
            /\ pc' = IF r.err # NoErr THEN "fatal" ELSE "closing"
    /\ UNCHANGED <<prog, stack, handles, held, attempts, closes, rid, opens, flags>>

\* variant: a failed send ends the interactive session like in the other modes
SerialLine_FatalOnError ==
    /\ prog = "serial" /\ pc = "interactive" /\ nsends < MaxSends
    /\ \E input \in SeqsUpTo({XB}, MaxLen) \ {<<>>}, o \in WriteOutcomes :
        LET r == sendZpl(input, o)
        IN  /\ Sent("sendZpl", 1, input, r)
            /\ pc' = IF r.err # NoErr THEN "fatal" ELSE pc
    /\ UNCHANGED <<prog, stack, handles, held, attempts, closes, rid, opens, flags>>

\* a line typed in interactive mode: the scanner strips the line end, so
\* the line holds no line-feed; an empty line is skipped
SerialLine ==
    /\ prog = "serial" /\ pc = "interactive" /\ nsends < MaxSends
    /\ \E input \in SeqsUpTo({XB}, MaxLen), o \in WriteOutcomes :
        IF input # <<>> THEN Sent("sendZpl", 1, input, sendZpl(input, o))
        ELSE /\ last' = Op("empty line", 0, <<>>, NoIO(NoErr), <<>>)
             /\ UNCHANGED <<sink, okSent, nsends>>
    /\ UNCHANGED <<prog, pc, stack, handles, held, attempts, closes, rid, opens, flags>>

\* "exit" typed, or end of input
SerialQuit ==
    /\ prog = "serial" /\ pc = "interactive"
    /\ pc' = "closing"
    /\ last' = Op("exit", 0, <<>>, NoIO(NoErr), <<>>)
    /\ UNCHANGED <<prog, stack, handles, held, sink, okSent, attempts, nsends,
                   closes, rid,
                   opens, flags>>

\* main returns: the deferred port.Close() runs
SerialReturn ==
    /\ prog = "serial" /\ pc = "closing"
    /\ Closed("deferred Close", 1, Close(World(held, <<>>), handles[1]))
    /\ stack' = <<>>
    /\ pc' = "exited"
    /\ UNCHANGED <<prog, sink, okSent, attempts, nsends, rid, opens, flags>>

(***************************************************************************)
(* Fixed-port program: main()                                              *)
(***************************************************************************)
\* port.Write([]byte(zpl)): the byte count is discarded
portWrite(data, o) ==
    [data |-> data, acc |-> Accepted(data, o), writes |-> 1,
     err |-> IF o.err THEN "write error" ELSE NoErr]

\* serial.Open(portName, mode); defer port.Close()
FixedOpen ==
    /\ prog = "fixed" /\ pc = "start"
    /\ \E ok \in BOOLEAN :
        LET n == attempts + 1
            ops == <<<<"serial.Open", n>>>>
        IN  /\ attempts' = n
            /\ opens' = Append(opens, [op |-> "serial.Open",
                                       err |-> IF ok THEN NoErr ELSE "open failed",
                                       avail |-> ok, eps |-> {}])
            /\ IF ~ok THEN
                    /\ pc' = "fatal"
                    /\ last' = Op("log.Fatalf", 0, <<>>, NoIO("Failed to open port"), ops)
                    /\ UNCHANGED <<handles, held, sink, okSent, closes, rid, stack>>
               ELSE
                    /\ NewHandle(SerialPort(n))
                    /\ held' = held \cup {<<"port", n>>}
                    /\ stack' = <<Frame(1, <<1>>)>>
                    /\ pc' = "write"
                    /\ last' = Op("serial.Open", 1, <<>>, NoIO(NoErr), ops)
    /\ UNCHANGED <<prog, nsends, flags>>

\* port.Write([]byte(zpl)); an error ends the process through log.Fatalf
FixedWrite ==
    /\ prog = "fixed" /\ pc = "write"
    /\ \E o \in WriteOutcomes :
        LET r == portWrite(FixedZPL, o)
        IN  /\ Sent("port.Write", 1, FixedZPL, r)
            /\ pc' = IF r.err # NoErr THEN "fatal" ELSE "closing"
    /\ UNCHANGED <<prog, stack, handles, held, attempts, closes, rid, opens, flags>>

\* main returns: the deferred port.Close() runs
FixedReturn ==
    /\ prog = "fixed" /\ pc = "closing"
    /\ Closed("deferred Close", 1, Close(World(held, <<>>), handles[1]))
    /\ stack' = <<>>
    /\ pc' = "exited"
    /\ UNCHANGED <<prog, sink, okSent, attempts, nsends, rid, opens, flags>>

Next ==
    \/ MainEnter
    \/ ChooseUSB
    \/ ChooseNetwork
    \/ ChooseExit
    \/ ChooseInvalid
    \/ SendTest
    \/ SendCustom
    \/ ChangeConnection
    \/ OptionsExit
    \/ OptionsInvalid
    \/ MainReturn
    \/ SerialValidate
    \/ SerialOpen
    \/ SerialSendFile
    \/ SerialSendText
    \/ SerialLine
    \/ SerialQuit
    \/ SerialReturn
    \/ FixedOpen
    \/ FixedWrite
    \/ FixedReturn

Spec == Init /\ [][Next]_vars

(***************************************************************************)
(* The two printer types used through their exported functions and methods *)
(* by an arbitrary caller: opens, sends and closes in any order, on any    *)
(* handle constructed so far.                                              *)
(***************************************************************************)
MaxCloses == 2      \* Close calls per handle

InitAPI ==
    /\ prog = "api"
    /\ pc = "api"
    /\ stack = <<>>
    /\ handles = <<>>
    /\ held = {}
    /\ sink = <<>>
    /\ okSent = <<>>
    /\ closes = <<>>
    /\ rid = <<>>
    /\ opens = <<>>
    /\ last = Op("start", 0, <<>>, NoIO(NoErr), <<>>)
    /\ attempts = 0
    /\ nsends = 0
    /\ flags \in MenuFlags

\* the outcome of a constructor call
Constructed(op, r, avail, eps) ==
    /\ attempts' = attempts + 1
    /\ opens' = Append(opens, [op |-> op, err |-> r.err, avail |-> avail,
                               eps |-> IF r.err = NoErr THEN eps ELSE {}])
    /\ held' = r.w.held
    /\ IF r.err # NoErr THEN
            /\ last' = Op(op, 0, <<>>, NoIO(r.err), r.w.ops)
            /\ UNCHANGED <<handles, sink, okSent, closes, rid>>
       ELSE /\ NewHandle(r.p)
            /\ last' = Op(op, Len(handles) + 1, <<>>, NoIO(r.err), r.w.ops)
    /\ UNCHANGED <<prog, pc, stack, nsends, flags>>

CallNewUSBPrinter ==
    /\ prog = "api" /\ attempts < MaxOpens
    /\ \E env \in USBEnvs :
        /\ env.linux = flags.linux
        /\ Constructed("NewUSBPrinter",
                       NewUSBPrinter(World(held, <<>>), attempts + 1, env),
                       Available(env), {env.eps[i] : i \in 1..Len(env.eps)})

CallNewNetworkPrinter ==
    /\ prog = "api" /\ attempts < MaxOpens
    /\ \E addr \in Addrs, dialOK \in BOOLEAN :
            Constructed("NewNetworkPrinter",
                        NewNetworkPrinter(World(held, <<>>), attempts + 1, addr, dialOK),
                        dialOK, {})

CallSendZPL ==
    /\ prog = "api" /\ nsends < MaxSends
    /\ \E h \in 1..Len(handles), zpl \in Payloads, o \in WriteOutcomes :
            Sent("SendZPL", h, zpl, SendZPL(handles[h], zpl, o))
    /\ UNCHANGED <<prog, pc, stack, handles, held, attempts, closes, rid, opens, flags>>

CallClose ==
    /\ prog = "api"
    /\ \E h \in 1..Len(handles) :
        /\ Len(closes[h]) < MaxCloses
        /\ Closed("Close", h, Close(World(held, <<>>), handles[h]))
    /\ UNCHANGED <<prog, pc, stack, sink, okSent, attempts, nsends, rid, opens, flags>>

NextAPI ==
    \/ CallNewUSBPrinter
    \/ CallNewNetworkPrinter
    \/ CallSendZPL
    \/ CallClose

SpecAPI == InitAPI /\ [][NextAPI]_vars

(***************************************************************************)
(* Properties                                                              *)
(***************************************************************************)
IsHandle(h) == h \in 1..Len(handles)

\* resources of open attempt n that are still held
HeldBy(n) == {r \in held : r[2] = n}

EndsWithLF(p) == p # <<>> /\ p[Len(p)] = LF

\* the framing rule as the specification states it
Framed(p) == IF EndsWithLF(p) THEN p ELSE p \o <<LF>>

RECURSIVE ConcatFramed(_)
ConcatFramed(ps) ==
    IF ps = <<>> THEN <<>> ELSE Framed(Head(ps)) \o ConcatFramed(Tail(ps))

RECURSIVE SumLen(_)
SumLen(ss) == IF ss = <<>> THEN 0 ELSE Len(Head(ss)) + SumLen(Tail(ss))

FailedUSBOpen == last.op = "NewUSBPrinter" /\ last.err # NoErr

\* C1: when NewUSBPrinter returns an error, whatever the failing step, no
\* resource acquired during that attempt is still held and no handle is
\* returned.
C1_FailedOpenHoldsNothing ==
    FailedUSBOpen =>
        /\ HeldBy(attempts) = {}
        /\ last.h = 0
        /\ Top.printer = TypedNil
        /\ Len(handles) < attempts

\* the failure after the most acquisitions: context, device and interface
\* claim were acquired, the OUT endpoint did not open, all were rolled back
C1_Witness ==
    /\ last.op = "NewUSBPrinter"
    /\ last.err = "failed to open out endpoint"
    /\ \E i \in 1..Len(last.ops) : last.ops[i][1] = "done"
    /\ HeldBy(attempts) = {}

\* C2: after a successful NewUSBPrinter the handle holds a reference to the
\* context, the device, the interface and the OUT endpoint, and the context
\* has not been released.
C2_HandleOwnsAllFour ==
    (last.op = "NewUSBPrinter" /\ last.err = NoErr) =>
        /\ handles[last.h].ctx # 0
        /\ handles[last.h].dev # 0
        /\ handles[last.h].intf # 0
        /\ handles[last.h].outEP # 0
        /\ <<"ctx", attempts>> \in held

\* C3: once Close has been called on a handle, every resource acquired by
\* the open that constructed it has been released.
C3_CloseReleasesAll ==
    \A h \in 1..Len(handles) : closes[h] # <<>> => HeldBy(rid[h]) = {}

\* C4: the bytes a send hands to the transport are the payload followed by
\* one line-feed when the payload does not end with a line-feed (the empty
\* payload included), and the payload itself when it does.
C4_Framing ==
    (last.op \in {"SendZPL", "sendZpl"} /\ last.writes > 0) =>
        /\ EndsWithLF(last.p) => last.data = last.p
        /\ ~EndsWithLF(last.p) => last.data = last.p \o <<LF>>

\* the empty payload was sent over USB and one line-feed was handed over
C4_Witness ==
    /\ last.op = "SendZPL"
    /\ IsHandle(last.h) /\ handles[last.h].kind = "usb"
    /\ last.p = <<>>
    /\ last.writes = 1
    /\ last.data = <<LF>>

\* C5: in file mode of the serial tool the framing rule applies to the
\* file's content: content that does not end with a line-feed reaches the
\* port followed by exactly one line-feed.
C5_FileIsFramed ==
    (last.op = "sendZplFromFile" /\ last.writes > 0 /\ ~EndsWithLF(last.p)) =>
        last.data = last.p \o <<LF>>

\* C6: Close called twice on the same handle returns success both times and
\* the second call performs no operation on any underlying resource.
C6_CloseIdempotent ==
    \A h \in 1..Len(handles) :
        Len(closes[h]) >= 2 =>
            /\ closes[h][1].err = NoErr
            /\ closes[h][2].err = NoErr
            /\ closes[h][2].ops = <<>>

\* C7: when every send issued so far returned success, the bytes at each
\* handle's sink are the framed payloads of its sends, concatenated in the
\* order the sends were submitted.
C7_SinkIsFramesInOrder ==
    (nsends = SumLen(okSent) /\ flags.file = "") =>
        \A h \in 1..Len(handles) : sink[h] = ConcatFramed(okSent[h])

\* C8: a network or serial send that returns success has delivered the
\* entire framed payload to the sink, also when the transport accepted
\* fewer bytes than requested on a write call without reporting an error.
C8_SuccessMeansAllDelivered ==
    (/\ last.op \in {"SendZPL", "sendZpl"}
     /\ IsHandle(last.h) /\ handles[last.h].kind \in {"net", "serial"}
     /\ last.err = NoErr) =>
        last.acc = Framed(last.p)

NotFound(o) == o.op = "NewUSBPrinter" /\ o.err = "Zebra printer not found"

\* handle p, constructed by open attempt n, can be sent to
UsableIn(hd, p, n) ==
    \/ p.kind = "usb" /\ p.claimed /\ p.dev # 0 /\ p.outEP # 0
                      /\ {<<"dev", n>>, <<"intf", n>>} \subseteq hd
    \/ p.kind = "net" /\ p.conn # 0 /\ <<"sock", n>> \in hd

Usable(p, n) == UsableIn(held, p, n)

\* C9: a USB open that fails because no device matches leaves the session
\* at the connection menu with nothing of that attempt held, and any later
\* open attempt on an available target succeeds with a usable handle.
C9_OpenAfterNotFound ==
    [][/\ (Len(opens') > Len(opens) /\ NotFound(opens'[Len(opens')])) =>
            /\ pc' = "select"
            /\ {r \in held' : r[2] = attempts'} = {}
            /\ Top'.printer = TypedNil
       /\ ((\E i \in 1..Len(opens) : NotFound(opens[i]))
           /\ Len(opens') > Len(opens) /\ opens'[Len(opens')].avail) =>
            /\ opens'[Len(opens')].err = NoErr
            /\ pc' = "options"
            /\ Top'.printer \in 1..Len(handles')
            /\ UsableIn(held', handles'[Top'.printer], attempts')
      ]_vars

\* the first USB open found no device, the second open succeeded and a
\* send on the new handle went through
C9_Witness ==
    /\ Len(opens) = 2
    /\ NotFound(opens[1])
    /\ opens[2].err = NoErr
    /\ pc = "options"
    /\ Usable(handles[Top.printer], attempts)
    /\ okSent[Top.printer] # <<>>

\* C10: with an empty port name the serial tool stops with a configuration
\* error before any device access: no open is attempted, nothing is sent
\* and nothing is closed.
C10_EmptyPortNoAccess ==
    (prog = "serial" /\ flags.port = "") =>
        /\ pc \in {"start", "fatal"}
        /\ attempts = 0 /\ opens = <<>>
        /\ handles = <<>> /\ held = {}
        /\ nsends = 0 /\ sink = <<>>
        /\ closes = <<>>
        /\ last.ops = <<>> /\ last.writes = 0

\* the tool was started without a port name and has terminated
C10_Witness ==
    /\ prog = "serial" /\ flags.port = ""
    /\ pc = "fatal"
    /\ last.op = "log.Fatal"
    /\ attempts = 0

\* C11: a Network open whose address cannot be reached returns an error and
\* no handle, leaves no socket open, and the session stays disconnected at
\* the connection menu with no close scheduled for the attempt.
C11_UnreachableNoHandle ==
    (/\ opens # <<>>
     /\ last.op = "NewNetworkPrinter"
     /\ ~opens[Len(opens)].avail) =>
        /\ last.err # NoErr
        /\ opens[Len(opens)].err # NoErr
        /\ last.h = 0
        /\ Len(handles) < attempts
        /\ HeldBy(attempts) = {}
        /\ pc = "select"
        /\ ~IsHandle(Top.printer)
        /\ Top.defers = <<>>

\* the dial failed and the session is back at the connection menu
C11_Witness ==
    /\ last.op = "NewNetworkPrinter"
    /\ last.err = "failed to connect to printer"
    /\ ~opens[Len(opens)].avail
    /\ pc = "select"
    /\ HeldBy(attempts) = {}

\* the handle is open: its fields say so and its transport resource is held
StillOpen(h) ==
    LET p == handles[h]
    IN  \/ p.kind = "usb" /\ p.claimed /\ p.dev # 0 /\ <<"intf", rid[h]>> \in held
        \/ p.kind = "net" /\ p.conn # 0 /\ <<"sock", rid[h]>> \in held
        \/ p.kind = "serial" /\ <<"port", rid[h]>> \in held

\* the session is one of the two interactive loops
Interactive ==
    \/ prog = "usbnet"
    \/ prog = "serial" /\ flags.file = "" /\ flags.zpl = <<>>

IsSend(o) == o.op \in {"SendZPL", "sendZpl"}

\* C12: after a failed send in an interactive loop the session is still in
\* the loop with its handle open and not closed, and a following send that
\* the transport takes whole succeeds.
C12_FailedSendContinues ==
    [][/\ (Interactive /\ nsends' = nsends + 1 /\ last'.err # NoErr) =>
            /\ pc' = pc
            /\ pc' \in {"options", "interactive"}
            /\ handles' = handles
            /\ held' = held
            /\ closes'[last'.h] = <<>>
       /\ (/\ Interactive /\ IsSend(last) /\ last.err # NoErr
           /\ nsends' = nsends + 1
           /\ last'.acc = FrameZPL(last'.p) /\ last'.err # "write error") =>
            /\ last'.err = NoErr
            /\ last'.writes = 1
            /\ sink'[last'.h] = sink[last'.h] \o last'.data
      ]_vars

\* a send failed, the next one on the same handle went through
C12_Witness ==
    /\ Interactive
    /\ nsends = 2
    /\ IsSend(last) /\ last.err = NoErr
    /\ Len(okSent[last.h]) = 1
    /\ StillOpen(last.h)
    /\ pc \in {"options", "interactive"}

\* the handle's own fields say it is open
OpenByFields(p) ==
    \/ p.kind = "usb" /\ p.claimed
    \/ p.kind = "net" /\ p.conn # 0

\* C13: in the USB/Network tool at most one handle is open at any time:
\* every handle but the newest has had Close called on it and is closed,
\* and at most one interface claim or socket is held.
C13_AtMostOneOpen ==
    prog = "usbnet" =>
        /\ Cardinality({h \in 1..Len(handles) : OpenByFields(handles[h])}) <= 1
        /\ \A h \in 1..Len(handles) :
                h < Len(handles) => closes[h] # <<>> /\ ~OpenByFields(handles[h])
        /\ Cardinality({r \in held : r[1] \in {"intf", "sock"}}) <= 1

\* the connection was changed: the first handle is closed, the second open
C13_Witness ==
    /\ prog = "usbnet"
    /\ Len(handles) = 2
    /\ Len(stack) = 2
    /\ closes[1] # <<>> /\ ~OpenByFields(handles[1])
    /\ OpenByFields(handles[2]) /\ closes[2] = <<>>

\* the process has ended: main returned, or log.Fatal called os.Exit
Terminated == pc \in {"exited", "fatal"}

\* C14: when the process has ended, on whatever exit path, Close has been
\* called on every handle that was opened.
C14_ClosedBeforeExit ==
    Terminated => \A h \in 1..Len(handles) : closes[h] # <<>>

IsRelease(c) == c[1] \in {"done", "intf.Close", "dev.Close", "ctx.Close"}

\* the names of the release calls in a call log, in the order they were made
ReleaseNames(ops) ==
    LET rel == SelectSeq(ops, IsRelease)
    IN  [i \in 1..Len(rel) |-> rel[i][1]]

\* what a failed NewUSBPrinter had acquired, released in reverse order
ExpectedRollback(err) ==
    IF err \in {"failed to open out endpoint", "no OUT endpoint found"}
    THEN <<"done", "dev.Close", "ctx.Close">>
    ELSE IF err \in {"failed to set auto detach", "failed to claim interface"}
    THEN <<"dev.Close", "ctx.Close">>
    ELSE <<"ctx.Close">>

\* C15: a failed NewUSBPrinter releases what it had acquired in reverse
\* order of acquisition (interface claim, then device, then context), each
\* once, after its last acquisition and before it returns the error.
C15_RollbackReverseOrder ==
    FailedUSBOpen =>
        LET rel == ReleaseNames(last.ops)
            k == Len(last.ops) - Len(rel)
        IN  /\ rel = ExpectedRollback(last.err)
            /\ \A i \in 1..Len(last.ops) : IsRelease(last.ops[i]) <=> i > k
            /\ \A i \in 1..Len(last.ops) : last.ops[i][2] = attempts
            /\ HeldBy(attempts) = {}

\* no OUT endpoint: interface, device and context were released in turn
C15_Witness ==
    /\ last.op = "NewUSBPrinter"
    /\ last.err = "no OUT endpoint found"
    /\ ReleaseNames(last.ops) = <<"done", "dev.Close", "ctx.Close">>
    /\ HeldBy(attempts) = {}

\* C16: the first Close of a USB handle releases the interface claim, then
\* the device, then the context; what the open claimed on the device (the
\* interface and the configuration) is released before the device is
\* closed, so the device does close; a later Close releases nothing again.
C16_CloseOrder ==
    \A h \in 1..Len(handles) :
        (handles[h].kind = "usb" /\ closes[h] # <<>>) =>
            /\ ReleaseNames(closes[h][1].ops) = <<"intf.Close", "dev.Close", "ctx.Close">>
            /\ closes[h][1].err = NoErr
            /\ {<<"intf", rid[h]>>, <<"cfg", rid[h]>>, <<"dev", rid[h]>>} \cap held = {}
            /\ \A i \in 2..Len(closes[h]) : closes[h][i].ops = <<>>

RECURSIVE PendingDefers(_)
PendingDefers(st) ==
    IF st = <<>> THEN 0 ELSE Len(Head(st).defers) + PendingDefers(Tail(st))

\* C17: changing the printer connection is a loop, not a re-entry: going
\* from the options menu back to the connection menu adds no activation of
\* main and no pending deferred close, so both stay bounded by a constant
\* however often the connection is changed.
C17_ChangeIsLoop ==
    [][(prog = "usbnet" /\ pc = "options" /\ pc' = "select") =>
            /\ Len(stack') <= Len(stack)
            /\ PendingDefers(stack') <= 1
      ]_vars

\* the endpoints of the interface that USB handle h holds
EndpointsOf(h) == opens[rid[h]].eps

USBHandles == {h \in 1..Len(handles) : handles[h].kind = "usb"}

\* C18: the endpoint a USB handle holds is an OUT endpoint of its interface,
\* never an IN endpoint, and two opens of a device with the same endpoints
\* select the same endpoint.
C18_SameOutEndpoint ==
    /\ \A h \in USBHandles :
            \E ep \in EndpointsOf(h) :
                ep.Number = handles[h].outEP /\ ep.Direction = "out"
    /\ \A h1, h2 \in USBHandles :
            EndpointsOf(h1) = EndpointsOf(h2) => handles[h1].outEP = handles[h2].outEP

\* C19: a SendZPL on a handle that Close has been called on returns an
\* error, issues no write, delivers no byte and changes neither the handle
\* nor any resource: the handle stays closed.
C19_SendAfterCloseRejected ==
    [][(nsends' = nsends + 1 /\ closes[last'.h] # <<>>) =>
            /\ last'.err # NoErr
            /\ last'.writes = 0
            /\ last'.acc = <<>>
            /\ sink' = sink
            /\ okSent' = okSent
            /\ handles' = handles
            /\ held' = held
            /\ ~OpenByFields(handles'[last'.h])
      ]_vars

\* a USB handle was closed and then sent to: the send was refused
C19_Witness ==
    /\ last.op = "SendZPL"
    /\ handles[last.h].kind = "usb"
    /\ closes[last.h] # <<>>
    /\ last.err = "printer interface not claimed"
    /\ last.writes = 0
    /\ sink[last.h] = <<>>

\* h is a handle object that an open call returned together with a nil error
SuccessfulOpen(h) == IsHandle(h) /\ opens[rid[h]].err = NoErr

\* C20: in the USB/Network tool every SendZPL, every Close and every
\* scheduled Close targets a handle returned by a successful open, the
\* options menu only runs on such a handle that the session has not closed,
\* and no send is issued on a handle the session has closed.
C20_SessionTargetsOpenedHandles ==
    prog = "usbnet" =>
        /\ \A i \in 1..Len(stack) : \A j \in 1..Len(stack[i].defers) :
                SuccessfulOpen(stack[i].defers[j])
        /\ pc = "options" =>
                SuccessfulOpen(Top.printer) /\ closes[Top.printer] = <<>>
        /\ last.op \in {"SendZPL", "Close", "deferred Close"} =>
                SuccessfulOpen(last.h)
        /\ last.op = "SendZPL" => closes[last.h] = <<>>
        /\ \A n \in 1..Len(opens) :
                opens[n].err # NoErr => \A h \in 1..Len(handles) : rid[h] # n

\* an open failed, the next one succeeded, the session sent to that handle
\* and then closed it for "Change printer connection"
C20_Witness ==
    /\ prog = "usbnet"
    /\ Len(opens) = 2 /\ opens[1].err # NoErr /\ opens[2].err = NoErr
    /\ nsends > 0
    /\ last.op = "Close" /\ last.h = 1 /\ rid[1] = 2
    /\ sink[1] # <<>>

====
